---- MODULE Spec2Model ----
(***************************************************************************)
(* Entity handles (Arc<Mutex<T>>), the weak-reference entity container     *)
(* (Entities / EntityContainer) and the two drivers of Game::start.        *)
(***************************************************************************)
EXTENDS Integers, Sequences, FiniteSets, TLC

\* ------------------------------------------------------------------ bounds
NumEnt     == 2      \* entities user code creates (container-API scenarios)
MaxOwned   == 2      \* strong references user code holds to one entity
MaxLen     == 2      \* entries in all containers together (container-API scenarios)

Ent    == 1..NumEnt
\* The Entities values of the container-API scenarios: two containers built
\* with Entities::new and one value for a clone of either.
Handle == 1..3

\* The four containers of Game, named by capability, and the address of the
\* Arc<Mutex<Vec>> each one points to.
Cap == {"update", "fixed", "render", "interactive"}
AddrOf(c) == CASE c = "update" -> 1 [] c = "fixed" -> 2 [] c = "render" -> 3 [] c = "interactive" -> 4

\* The value of a handle not bound to a container.
NoAddr == CHOOSE a \in 0..4 : a \notin {AddrOf(c) : c \in Cap}

\* The value of `lastAccess` when the most recent operation was no access().
NoAccess == <<NoAddr, FALSE>>

Driver == {"main", "fixed"}
\* The value of `holds` when the driver holds no upgraded Arc.
NoEnt  == CHOOSE n \in 0..NumEnt : n \notin Ent

VARIABLES
    created,    \* entities for which entity!(..) has been evaluated
    owned,      \* [entity -> Nat]: strong references (Arc clones) held by user code
    heap,       \* [address -> Seq(entity)]: the Vec<WeakEntity<T>> behind each Arc<Mutex<..>>
    handle,     \* [handle -> address or NoAddr]: the Arc pointer inside each Entities value
    family,     \* [handle -> handle]: the handle an Entities value was (transitively) cloned from
    lock,       \* [address -> "free" or the driver holding the container's MutexGuard]
    poisoned,   \* [address -> BOOLEAN]: a thread panicked while holding the container's guard
    elock,      \* [entity -> "free", the driver holding the entity's MutexGuard, or "poisoned"]
    counter,    \* [entity -> Nat]: the entity's own state, a counter every callback increments
    pass,       \* [Driver -> the dispatch pass the driver is in]
    pc,         \* [Driver -> the driver's position]
    idx,        \* [Driver -> position of the iterator over the locked vector, from 1]
    holds,      \* [Driver -> the entity whose upgraded Arc the driver holds, or NoEnt]
    tmp,        \* [Driver -> the counter value the running callback has read]
    quit,       \* Renderer::quit
    camera,     \* Renderer::camera.is_some()
    pump,       \* events pending in the EventPump, oldest first
    event,      \* the event the current on_event fan-out dispatches
    iter,       \* main-loop iterations begun
    ticks,      \* timer callbacks begun
    instant,    \* [Driver -> the driver's reference instant]: standard_instant,
                \* fixed_update_instant
    timestep,   \* Game::timestep, in milliseconds
    interval,   \* <<d>> once schedule_repeating(d, ..) was called, <<>> before
    userOps,    \* operations user code has issued beside the drivers while the game runs
    lim,        \* the scenario: how many iterations, ticks, events and user operations it has
    \* history, read by the properties only
    lastAccess, \* <<a, r>> when the most recent operation on entities and containers was
                \* an access() on the container at address a, r telling whether its prune
                \* removed an entry; NoAccess otherwise
    done,       \* [Driver -> [entity -> Nat]]: callbacks the driver completed on the entity
    calls,      \* [Driver -> Seq(entity)]: entities called so far in the driver's current pass
    snap,       \* [Driver -> Seq(entity)]: the vector as left by the driver's last prune
    seen,       \* [Driver -> Seq(entity)]: the vector as found when the current pass locked it
    batch,      \* the events pending when the current process_event began
    deadAt,     \* [loop, render, tick -> the entities already destroyed when the latest
                \* loop iteration, render step, timer callback began]
    mlog        \* what the main driver did in the current loop iteration, in order

entVars  == <<created, owned>>
conVars  == <<heap, handle, family, lastAccess>>
lockVars == <<lock, poisoned, elock>>
drvVars  == <<counter, pass, pc, idx, holds, tmp, quit, camera, pump, event, iter, ticks, instant,
              timestep, interval>>
histVars == <<done, calls, snap, seen, batch, deadAt, mlog>>
vars == <<entVars, conVars, lockVars, drvVars, userOps, lim, histVars>>

Entities == DOMAIN owned

\* ------------------------------------------------------- entity handles
\* Fault: containers that hold strong references, so that every entry counts.
StrongCountWithEntries(e) ==
    owned[e] + Cardinality({t \in Driver : holds[t] = e})
        + Cardinality({p \in (DOMAIN heap) \X (1..8) : p[2] <= Len(heap[p[1]]) /\ heap[p[1]][p[2]] = e})

\* Fault: a dispatch that calls through the weak reference, the driver holding no
\* strong reference of its own.
StrongCountOwners(e) == owned[e]

\* Arc::strong_count of the entity.
StrongCount(e) == owned[e] + Cardinality({t \in Driver : holds[t] = e})

\* The entities that were created and have been destroyed: no strong reference is left.
Destroyed == {e \in created : StrongCount(e) = 0}

\* Weak::upgrade(): Some exactly when a strong reference is outstanding.
Upgrade(e) == StrongCount(e) > 0

\* entity!(object): Arc::new(Mutex::new(object)); the caller owns the one strong reference.
EntityNew(e) ==
    /\ e \notin created
    /\ \A d \in Entities : d < e => d \in created
    /\ created' = created \cup {e}
    /\ owned' = [owned EXCEPT ![e] = 1]
    /\ lastAccess' = NoAccess
    /\ UNCHANGED <<heap, handle, family, lockVars, drvVars, userOps, lim, histVars>>

\* Entity::clone(&entity) (the entities! macro): one more strong reference.
EntityClone(e) ==
    /\ owned[e] >= 1
    /\ owned[e] < MaxOwned
    /\ owned' = [owned EXCEPT ![e] = @ + 1]
    /\ lastAccess' = NoAccess
    /\ UNCHANGED <<created, heap, handle, family, lockVars, drvVars, userOps, lim, histVars>>

\* drop(entity): one strong reference fewer; at zero the value is destroyed.
EntityDrop(e) ==
    /\ owned[e] >= 1
    /\ owned' = [owned EXCEPT ![e] = @ - 1]
    /\ lastAccess' = NoAccess
    /\ UNCHANGED <<created, heap, handle, family, lockVars, drvVars, userOps, lim, histVars>>

\* ------------------------------------------------------------ container
\* Fault: a retain whose predicate keeps every entry, dead or alive.
retainAll(entities) == entities

\* Fault: a prune that cuts the vector at its first dead entry (Vec::truncate).
pruneTruncate(entities) ==
    LET dead == {i \in DOMAIN entities : ~Upgrade(entities[i])}
    IN IF dead = {} THEN entities
       ELSE SubSeq(entities, 1, (CHOOSE i \in dead : \A j \in dead : i <= j) - 1)

RECURSIVE prune(_)
\* Entities::prune: entities.retain(|entity| entity.upgrade().is_some()), which keeps,
\* in order, the entries whose upgrade succeeds.
prune(entities) ==
    IF entities = <<>> THEN <<>>
    ELSE IF Upgrade(Head(entities)) THEN <<Head(entities)>> \o prune(Tail(entities))
         ELSE prune(Tail(entities))

\* Fault: a push with a uniqueness check, which ignores an entity already registered.
VecPushUnique(entities, e) ==
    IF \E i \in DOMAIN entities : entities[i] = e THEN entities ELSE Append(entities, e)

\* Vec::push(Arc::downgrade(entity)).
VecPush(entities, e) == Append(entities, e)

\* Fault: an add_entities that walks the slice from its last element to its first.
PushAllReversed(entities, other) ==
    entities \o [i \in 1..Len(other) |-> other[Len(other) + 1 - i]]

RECURSIVE PushAll(_, _)
\* The loop of add_entities: self.push(entity) for each element, in slice order.
PushAll(entities, other) ==
    IF other = <<>> THEN entities
    ELSE PushAll(VecPush(entities, Head(other)), Tail(other))

FreeHandles == {h \in DOMAIN handle : handle[h] = NoAddr}
Lowest(S)   == CHOOSE x \in S : \A y \in S : x <= y

\* Fault: a clone that copies the vector into a fresh Arc<Mutex<Vec>> of its own.
EntitiesDeepClone(h) ==
    /\ handle[h] # NoAddr
    /\ FreeHandles # {}
    /\ LET h2 == Lowest(FreeHandles)
           a  == Lowest({x \in 1..8 : x \notin DOMAIN heap})
       IN /\ handle' = [handle EXCEPT ![h2] = a]
          /\ family' = [family EXCEPT ![h2] = family[h]]
          /\ heap' = [x \in DOMAIN heap \cup {a} |-> IF x = a THEN heap[handle[h]] ELSE heap[x]]
          /\ lock' = [x \in DOMAIN heap \cup {a} |-> IF x = a THEN "free" ELSE lock[x]]
          /\ poisoned' = [x \in DOMAIN heap \cup {a} |-> IF x = a THEN FALSE ELSE poisoned[x]]
    /\ lastAccess' = NoAccess
    /\ UNCHANGED <<entVars, elock>>

\* impl Clone for Entities: Self(Arc::clone(&self.0)).
EntitiesClone(h) ==
    /\ handle[h] # NoAddr
    /\ FreeHandles # {}
    /\ LET h2 == Lowest(FreeHandles)
       IN /\ handle' = [handle EXCEPT ![h2] = handle[h]]
          /\ family' = [family EXCEPT ![h2] = family[h]]
    /\ lastAccess' = NoAccess
    /\ UNCHANGED <<entVars, heap, lockVars>>

Range(s) == {s[i] : i \in DOMAIN s}

\* Fault: user code that reaches the vector without waiting for the guard a driver holds.
CanLockUnguarded(a) == ~poisoned[a]

\* A user thread can take the container's lock: Mutex::lock() blocks while another
\* thread holds the guard, and unwrap() panics on a poisoned mutex.
CanLock(a) == lock[a] = "free" /\ ~poisoned[a]

\* Entities::push(&entity): lock, push the downgraded reference, unlock.
push(h, e) ==
    /\ handle[h] # NoAddr
    /\ owned[e] >= 1
    /\ CanLock(handle[h])
    /\ heap' = [heap EXCEPT ![handle[h]] = VecPush(@, e)]
    /\ lastAccess' = NoAccess
    /\ UNCHANGED <<entVars, handle, family, lockVars>>

\* Slices of strong references user code can build: up to two owned entities.
Slices ==
    {<<e>> : e \in {d \in Entities : owned[d] >= 1}}
        \cup {<<e, f>> : e \in {d \in Entities : owned[d] >= 1},
                         f \in {d \in Entities : owned[d] >= 1}}

\* Entities::add_entities(&[..]).
add_entities(h, other) ==
    /\ handle[h] # NoAddr
    /\ CanLock(handle[h])
    /\ heap' = [heap EXCEPT ![handle[h]] = PushAll(@, other)]
    /\ lastAccess' = NoAccess
    /\ UNCHANGED <<entVars, handle, family, lockVars>>

\* Fault: a clear that removes only the last entry (Vec::pop for Vec::clear).
clearLast(h) ==
    /\ handle[h] # NoAddr
    /\ CanLock(handle[h])
    /\ heap' = [heap EXCEPT ![handle[h]] =
                    SubSeq(heap[handle[h]], 1, Len(heap[handle[h]]) - 1)]
    /\ lastAccess' = NoAccess
    /\ UNCHANGED <<entVars, handle, family, lockVars>>

\* Entities::clear.
clear(h) ==
    /\ handle[h] # NoAddr
    /\ CanLock(handle[h])
    /\ heap' = [heap EXCEPT ![handle[h]] = <<>>]
    /\ lastAccess' = NoAccess
    /\ UNCHANGED <<entVars, handle, family, lockVars>>

\* Fault: an access that prunes every container, not only the one it is called on.
accessAll(h) ==
    /\ handle[h] # NoAddr
    /\ CanLock(handle[h])
    /\ heap' = [a \in DOMAIN heap |-> prune(heap[a])]
    /\ lastAccess' = <<handle[h], heap'[handle[h]] # heap[handle[h]]>>
    /\ UNCHANGED <<entVars, handle, family, lockVars>>

\* Entities::access: lock, prune, unlock (the guard is a local of access), return &self.0.
access(h) ==
    /\ handle[h] # NoAddr
    /\ CanLock(handle[h])
    /\ heap' = [heap EXCEPT ![handle[h]] = prune(@)]
    /\ lastAccess' = <<handle[h], heap'[handle[h]] # heap[handle[h]]>>
    /\ UNCHANGED <<entVars, handle, family, lockVars>>

\* ------------------------------------------- container API, one user thread
\* Fault: a constructor whose vector already holds a reference to entity A.
EntitiesNewPreloaded == <<1>>

\* Entities::new() and EntityContainer::default(): the vector of a newly constructed
\* container, Vec::new() (Arc::new(Mutex::new(Vec::new()))).
EntitiesNew == <<>>

\* Game::default(): the vectors of the four containers of a newly constructed Game.
GameDefault ==
    [update |-> EntitiesNew, fixed |-> EntitiesNew, render |-> EntitiesNew,
     interactive |-> EntitiesNew]

\* Game::DEFAULT_TIMESTEP: ((1.0 / 50.0) * 1000.0) as i64, the milliseconds of one
\* fiftieth of a second, truncated (the f64 product is exactly 20.0).
DEFAULT_TIMESTEP == (1 * 1000) \div 50

\* What a scenario fixes: the population of the four Game containers, the clones
\* handed to user code, the camera, how far the scenario runs, the entities whose
\* callbacks panic, and the pairs <<spawner, block>>: the spawner's on_event creates
\* the block on a key press and registers it through its clones of the render and
\* fixed-update containers. Three more fields are set where a scenario needs them: the
\* timesteps user code may configure, the pairs <<owner, owned>> of an entity whose
\* update callback may drop the strong reference it holds to another, and the quit
\* flag of the renderer start is called with (false from Renderer::new, true for a
\* renderer that an earlier start call returned from).
Scenario(update, fixed, render, interactive, clones, cam, iters, tcks, events, ops, bad, spawns) ==
    [update |-> update, fixed |-> fixed, render |-> render, interactive |-> interactive,
     clones |-> clones, camera |-> cam,
     iters |-> iters, ticks |-> tcks, events |-> events, userOps |-> ops,
     panics |-> bad, spawns |-> spawns, timesteps |-> {}, drops |-> {},
     quit |-> FALSE]

Idle ==
    /\ lock = [a \in DOMAIN heap |-> "free"]
    /\ poisoned = [a \in DOMAIN heap |-> FALSE]
    /\ elock = [e \in Entities |-> "free"]
    /\ counter = [e \in Entities |-> 0]
    /\ pass = [t \in Driver |-> IF t = "main" THEN "event" ELSE "fixed"]
    /\ idx = [t \in Driver |-> 1]
    /\ holds = [t \in Driver |-> NoEnt]
    /\ tmp = [t \in Driver |-> 0]
    /\ quit = lim.quit
    /\ pump = <<>>
    /\ event = <<0, "None">>
    /\ iter = 0
    /\ ticks = 0
    /\ instant = [t \in Driver |-> 0]
    /\ timestep = DEFAULT_TIMESTEP
    /\ interval = <<>>
    /\ userOps = 0
    /\ lastAccess = NoAccess
    /\ done = [t \in Driver |-> [e \in Entities |-> 0]]
    /\ calls = [t \in Driver |-> <<>>]
    /\ snap = [t \in Driver |-> <<>>]
    /\ seen = [t \in Driver |-> <<>>]
    /\ batch = <<>>
    /\ deadAt = [k \in {"loop", "render", "tick"} |-> {}]
    /\ mlog = <<>>

\* Two containers of different capabilities, as constructed by Entities::new:
\* each a fresh Arc<Mutex<Vec>> holding an empty vector, each behind its own handle.
\* Game::start has not been called.
InitAPI ==
    /\ created = {}
    /\ owned = [e \in Ent |-> 0]
    /\ heap = [a \in {AddrOf("update"), AddrOf("fixed")} |-> EntitiesNew]
    /\ handle = [h \in Handle |-> IF h <= 2 THEN h ELSE NoAddr]
    /\ family = [h \in Handle |-> h]
    /\ camera = FALSE
    /\ pc = [t \in Driver |-> "unstarted"]
    /\ lim = Scenario(<<>>, <<>>, <<>>, <<>>, {}, FALSE, 0, 0, 0, 0, {}, {})
    /\ Idle

RECURSIVE Entries(_)
\* The number of entries in the containers at the addresses in A.
Entries(A) ==
    IF A = {} THEN 0
    ELSE LET a == CHOOSE x \in A : TRUE IN Len(heap[a]) + Entries(A \ {a})

\* The containers have room for n more entries within the bound, h being bound.
Room(h, n) == handle[h] # NoAddr /\ Entries(DOMAIN heap) + n <= MaxLen

\* Game::start is not running: a container operation changes no driver state.
NoDriver == UNCHANGED <<drvVars, userOps, lim, histVars>>

NextAPI ==
    \/ \E e \in Ent : EntityNew(e)
    \/ \E e \in Ent : EntityClone(e)
    \/ \E e \in Ent : EntityDrop(e)
    \/ \E h \in Handle : EntitiesClone(h) /\ NoDriver
    \/ \E h \in Handle, e \in Ent : Room(h, 1) /\ push(h, e) /\ NoDriver
    \/ \E h \in Handle : \E other \in Slices :
           Room(h, Len(other)) /\ add_entities(h, other) /\ NoDriver
    \/ \E h \in Handle : clear(h) /\ NoDriver
    \/ \E h \in Handle : access(h) /\ NoDriver

SpecAPI == InitAPI /\ [][NextAPI]_vars

\* ================================================================ Game::start
MaxIter    == 2      \* main-loop iterations
MaxTicks   == 2      \* timer callbacks
MaxBatch   == 3      \* events pending at one process_event
MaxUserOps == 1      \* pushes and clears user code issues while the game runs

EventKind == {"KeyDown", "KeyUp", "Quit"}

\* Event batches of up to n events.
Batches(n) == UNION {[1..k -> EventKind] : k \in 0..n}

\* The container a pass dispatches from.
PassAddr(t) ==
    CASE pass[t] = "event"  -> AddrOf("interactive")
      [] pass[t] = "update" -> AddrOf("update")
      [] pass[t] = "render" -> AddrOf("render")
      [] pass[t] = "fixed"  -> AddrOf("fixed")

\* The Guard returned by schedule_repeating is dropped when start returns or unwinds.
Cancelled == pc["main"] \in {"done", "panicked", "err"}

\* What a panic of driver t leaves behind: the unwinding drops the container guard the
\* driver holds, which poisons that mutex.
Panic(t) ==
    /\ pc' = [pc EXCEPT ![t] = "panicked"]
    /\ lock' = [a \in DOMAIN lock |-> IF lock[a] = t THEN "free" ELSE lock[a]]
    /\ poisoned' = [a \in DOMAIN lock |-> poisoned[a] \/ lock[a] = t]
    /\ UNCHANGED <<entVars, conVars, elock, counter, pass, idx, holds, tmp, quit, camera,
                   pump, event, iter, instant, timestep, interval, ticks, userOps, lim, histVars>>

\* A panic of driver t after its upgrade succeeded: besides what Panic(t) leaves
\* behind, the upgraded Arc is dropped, and the entity's mutex is poisoned if the
\* driver held its guard (a poisoned mutex stays poisoned, and unlocked).
Unwind(t) ==
    /\ pc' = [pc EXCEPT ![t] = "panicked"]
    /\ lock' = [a \in DOMAIN lock |-> IF lock[a] = t THEN "free" ELSE lock[a]]
    /\ poisoned' = [a \in DOMAIN lock |-> poisoned[a] \/ lock[a] = t]
    /\ elock' = [e \in DOMAIN elock |-> IF elock[e] = t THEN "poisoned" ELSE elock[e]]
    /\ holds' = [holds EXCEPT ![t] = NoEnt]
    /\ UNCHANGED <<entVars, conVars, counter, pass, idx, tmp, quit, camera,
                   pump, event, iter, instant, timestep, interval, ticks, userOps, lim, histVars>>

\* Instant::now(), in logical time: the loop iterations and timer callbacks begun so far.
InstantNow == iter + ticks

\* Instant::elapsed() of driver t's reference instant, the delta its callbacks are given.
Elapsed(t) == InstantNow - instant[t]

\* Game::with_timestep(timestep), called on the Game before start: self.timestep =
\* timestep. A scenario names the values user code passes.
WithTimestep(t) ==
    /\ pc["main"] = "init"
    /\ t \in lim.timesteps
    /\ timestep # t
    /\ timestep' = t
    /\ UNCHANGED <<entVars, conVars, lockVars, counter, pass, pc, idx, holds, tmp, quit,
                   camera, pump, event, iter, ticks, instant, interval, userOps, lim,
                   histVars>>

\* Fault: a start that schedules the closure every DEFAULT_TIMESTEP milliseconds
\* whatever timestep was configured.
StartOkDefaultInterval ==
    /\ pc["main"] = "init"
    /\ pc' = [pc EXCEPT !["main"] = "loop", !["fixed"] = "idle"]
    /\ instant' = [t \in Driver |-> InstantNow]
    /\ interval' = <<DEFAULT_TIMESTEP>>
    /\ UNCHANGED <<entVars, conVars, lockVars, counter, pass, idx, holds, tmp, quit, camera,
                   pump, event, iter, ticks, timestep, userOps, lim, histVars>>

\* Game::start up to the loop: sdl2::init()?, event_pump()?, video()?, get_canvas()?
\* succeed, the timer is created and the closure scheduled.
StartOk ==
    /\ pc["main"] = "init"
    /\ pc' = [pc EXCEPT !["main"] = "loop", !["fixed"] = "idle"]
    /\ instant' = [t \in Driver |-> InstantNow]
    /\ interval' = <<timestep>>
    /\ UNCHANGED <<entVars, conVars, lockVars, counter, pass, idx, holds, tmp, quit, camera,
                   pump, event, iter, ticks, timestep, userOps, lim, histVars>>

\* Fault: an initialisation whose error surfaces only after the timer was scheduled.
StartErrLate ==
    /\ pc["main"] = "init"
    /\ pc' = [pc EXCEPT !["main"] = "err", !["fixed"] = "idle"]
    /\ UNCHANGED <<entVars, conVars, lockVars, counter, pass, idx, holds, tmp, quit, camera,
                   pump, event, iter, instant, timestep, interval, ticks, userOps, lim, histVars>>

\* One of the ? operators returns the error to the caller of start.
StartErr ==
    /\ pc["main"] = "init"
    /\ pc' = [pc EXCEPT !["main"] = "err"]
    /\ UNCHANGED <<entVars, conVars, lockVars, counter, pass, idx, holds, tmp, quit, camera,
                   pump, event, iter, instant, timestep, interval, ticks, userOps, lim, histVars>>

\* Fault: a process_event that clears the quit flag before it polls.
ProcessEventBeginResetQuit ==
    /\ pc["main"] = "loop"
    /\ iter < lim.iters
    /\ iter' = iter + 1
    /\ \E b \in Batches(lim.events) : pump' = b /\ batch' = b
    /\ mlog' = <<>>
    /\ quit' = FALSE
    /\ deadAt' = [deadAt EXCEPT !.loop = Destroyed]
    /\ pass' = [pass EXCEPT !["main"] = "event"]
    /\ pc' = [pc EXCEPT !["main"] = "access"]
    /\ UNCHANGED <<entVars, conVars, lockVars, counter, idx, holds, tmp, camera,
                   event, ticks, instant, timestep, interval, userOps, lim, done, calls, snap,
                   seen>>

\* Top of the loop: renderer.process_event(..) is entered with some events pending.
ProcessEventBegin ==
    /\ pc["main"] = "loop"
    /\ iter < lim.iters
    /\ iter' = iter + 1
    /\ \E b \in Batches(lim.events) : pump' = b /\ batch' = b
    /\ mlog' = <<>>
    /\ deadAt' = [deadAt EXCEPT !.loop = Destroyed]
    /\ pass' = [pass EXCEPT !["main"] = "event"]
    /\ pc' = [pc EXCEPT !["main"] = "access"]
    /\ UNCHANGED <<entVars, conVars, lockVars, counter, idx, holds, tmp, quit, camera,
                   event, ticks, instant, timestep, interval, userOps, lim, done, calls, snap,
                   seen>>

\* The field of Game a pass dispatches from; handle h of a field points to address h.
PassHandle(t) == PassAddr(t)

\* Fault: a main loop that takes the Arc of the container without calling access(),
\* so that nothing is pruned before the pass.
AccessNoPrune ==
    /\ pc["main"] = "access"
    /\ lock[PassAddr("main")] = "free"
    /\ IF poisoned[PassAddr("main")]
       THEN Panic("main")
       ELSE /\ snap' = [snap EXCEPT !["main"] = heap[PassAddr("main")]]
            /\ lastAccess' = NoAccess
            /\ pc' = [pc EXCEPT !["main"] = IF pass["main"] = "event" THEN "poll" ELSE "lock"]
            /\ UNCHANGED <<entVars, heap, handle, family, lockVars, counter, pass, idx, holds,
                           tmp, quit, camera, pump, event, iter, instant, timestep, interval,
                           ticks, userOps, lim, deadAt, done, calls, seen, batch, mlog>>

\* entities.access() on the main driver: lock, prune, unlock; the Arc is returned.
Access ==
    /\ pc["main"] = "access"
    /\ lock[PassAddr("main")] = "free"
    /\ IF poisoned[PassAddr("main")]
       THEN Panic("main")
       ELSE /\ access(PassHandle("main"))
            /\ snap' = [snap EXCEPT !["main"] = heap'[PassAddr("main")]]
            /\ pc' = [pc EXCEPT !["main"] = IF pass["main"] = "event" THEN "poll" ELSE "lock"]
            /\ UNCHANGED <<counter, pass, idx, holds, tmp, quit, camera, pump, event, iter,
                           instant, timestep, interval,
                           ticks, userOps, lim, deadAt, done, calls, seen, batch, mlog>>

\* Fault: a poll loop that sets the flag on Event::Quit and does not break.
PollNoBreak ==
    /\ pc["main"] = "poll"
    /\ IF pump = <<>>
       THEN /\ pass' = [pass EXCEPT !["main"] = "update"]
            /\ pc' = [pc EXCEPT !["main"] = "access"]
            /\ UNCHANGED <<quit, pump, event, mlog>>
       ELSE IF Head(pump) = "Quit"
       THEN /\ quit' = TRUE
            /\ pump' = Tail(pump)
            /\ mlog' = Append(mlog, <<"quit", NoEnt, Len(batch) - Len(pump) + 1>>)
            /\ UNCHANGED <<pass, pc, event>>
       ELSE /\ event' = <<Len(batch) - Len(pump) + 1, Head(pump)>>
            /\ pump' = Tail(pump)
            /\ pc' = [pc EXCEPT !["main"] = "lock"]
            /\ UNCHANGED <<quit, pass, mlog>>
    /\ UNCHANGED <<entVars, conVars, lockVars, counter, idx, holds, tmp, camera, iter, instant,
                   timestep, interval, ticks,
                   userOps, lim, deadAt, done, calls, snap, seen, batch>>

\* Fault: a loop body that renders right after process_event, without the update pass.
PollThenRender ==
    /\ pc["main"] = "poll"
    /\ IF pump = <<>>
       THEN /\ pc' = [pc EXCEPT !["main"] = "render"]
            /\ UNCHANGED <<quit, pump, event, mlog, pass>>
       ELSE IF Head(pump) = "Quit"
       THEN /\ quit' = TRUE
            /\ pump' = Tail(pump)
            /\ mlog' = Append(mlog, <<"quit", NoEnt, Len(batch) - Len(pump) + 1>>)
            /\ pass' = [pass EXCEPT !["main"] = "update"]
            /\ pc' = [pc EXCEPT !["main"] = "access"]
            /\ UNCHANGED event
       ELSE /\ event' = <<Len(batch) - Len(pump) + 1, Head(pump)>>
            /\ pump' = Tail(pump)
            /\ pc' = [pc EXCEPT !["main"] = "lock"]
            /\ UNCHANGED <<quit, pass, mlog>>
    /\ UNCHANGED <<entVars, conVars, lockVars, counter, idx, holds, tmp, camera, iter, instant,
                   timestep, interval, ticks,
                   userOps, lim, deadAt, done, calls, snap, seen, batch>>

\* One step of `for event in self.event_pump.poll_iter()`.
Poll ==
    /\ pc["main"] = "poll"
    /\ IF pump = <<>>
       THEN /\ pass' = [pass EXCEPT !["main"] = "update"]
            /\ pc' = [pc EXCEPT !["main"] = "access"]
            /\ UNCHANGED <<quit, pump, event, mlog>>
       ELSE IF Head(pump) = "Quit"
       THEN /\ quit' = TRUE
            /\ pump' = Tail(pump)
            /\ mlog' = Append(mlog, <<"quit", NoEnt, Len(batch) - Len(pump) + 1>>)
            /\ pass' = [pass EXCEPT !["main"] = "update"]
            /\ pc' = [pc EXCEPT !["main"] = "access"]
            /\ UNCHANGED event
       ELSE /\ event' = <<Len(batch) - Len(pump) + 1, Head(pump)>>
            /\ pump' = Tail(pump)
            /\ pc' = [pc EXCEPT !["main"] = "lock"]
            /\ UNCHANGED <<quit, pass, mlog>>
    /\ UNCHANGED <<entVars, conVars, lockVars, counter, idx, holds, tmp, camera, iter, instant,
                   timestep, interval, ticks,
                   userOps, lim, deadAt, done, calls, snap, seen, batch>>

\* .lock().unwrap() on the Arc access() returned: the guard lives until the pass ends.
LockPass ==
    /\ pc["main"] = "lock"
    /\ lock[PassAddr("main")] = "free"
    /\ IF poisoned[PassAddr("main")]
       THEN Panic("main")
       ELSE /\ lock' = [lock EXCEPT ![PassAddr("main")] = "main"]
            /\ idx' = [idx EXCEPT !["main"] = 1]
            /\ calls' = [calls EXCEPT !["main"] = <<>>]
            /\ seen' = [seen EXCEPT !["main"] = heap[PassAddr("main")]]
            /\ mlog' = IF pass["main"] = "event"
                       THEN Append(mlog, <<"fanout", NoEnt, event[1]>>) ELSE mlog
            /\ pc' = [pc EXCEPT !["main"] = "iter"]
            /\ UNCHANGED <<entVars, conVars, poisoned, elock, counter, pass, holds, tmp, quit,
                           camera, pump, event, iter, instant, timestep, interval, ticks,
                           userOps, lim, deadAt, done, snap, batch>>

\* Fault: a schedule that fires again while the previous callback is still inside its
\* pass, the closure taking the vector without waiting for the guard.
TickOverlapping ==
    /\ pc["fixed"] \in {"idle", "iter"}
    /\ ~Cancelled
    /\ ticks < lim.ticks
    /\ lock[AddrOf("fixed")] # "main"
    /\ IF poisoned[AddrOf("fixed")]
       THEN Panic("fixed") /\ ticks' = ticks
       ELSE /\ lock' = [lock EXCEPT ![AddrOf("fixed")] = "fixed"]
            /\ heap' = [heap EXCEPT ![AddrOf("fixed")] = prune(@)]
            /\ lastAccess' = <<AddrOf("fixed"), heap'[AddrOf("fixed")] # heap[AddrOf("fixed")]>>
            /\ snap' = [snap EXCEPT !["fixed"] = heap'[AddrOf("fixed")]]
            /\ seen' = [seen EXCEPT !["fixed"] = heap'[AddrOf("fixed")]]
            /\ calls' = [calls EXCEPT !["fixed"] = <<>>]
            /\ idx' = [idx EXCEPT !["fixed"] = 1]
            /\ ticks' = ticks + 1
            /\ deadAt' = [deadAt EXCEPT !.tick = Destroyed]
            /\ pc' = [pc EXCEPT !["fixed"] = "iter"]
            /\ UNCHANGED <<entVars, handle, family, poisoned, elock, counter, pass, holds,
                           tmp, quit, camera, pump, event, iter, instant, timestep, interval,
                           userOps, lim, done, batch, mlog>>

\* Fault: a schedule that keeps firing after its Guard was dropped.
TickUncancelled ==
    /\ pc["fixed"] = "idle"
    /\ ticks < lim.ticks
    /\ lock[AddrOf("fixed")] = "free"
    /\ IF poisoned[AddrOf("fixed")]
       THEN Panic("fixed") /\ ticks' = ticks
       ELSE /\ lock' = [lock EXCEPT ![AddrOf("fixed")] = "fixed"]
            /\ heap' = [heap EXCEPT ![AddrOf("fixed")] = prune(@)]
            /\ lastAccess' = <<AddrOf("fixed"), heap'[AddrOf("fixed")] # heap[AddrOf("fixed")]>>
            /\ snap' = [snap EXCEPT !["fixed"] = heap'[AddrOf("fixed")]]
            /\ seen' = [seen EXCEPT !["fixed"] = heap'[AddrOf("fixed")]]
            /\ calls' = [calls EXCEPT !["fixed"] = <<>>]
            /\ idx' = [idx EXCEPT !["fixed"] = 1]
            /\ ticks' = ticks + 1
            /\ deadAt' = [deadAt EXCEPT !.tick = Destroyed]
            /\ pc' = [pc EXCEPT !["fixed"] = "iter"]
            /\ UNCHANGED <<entVars, handle, family, poisoned, elock, counter, pass, holds,
                           tmp, quit, camera, pump, event, iter, instant, timestep, interval,
                           userOps, lim, done, batch, mlog>>

\* The timer fires: the closure locks the fixed-update vector and prunes it under
\* that guard, which it keeps for the whole pass.
Tick ==
    /\ pc["fixed"] = "idle"
    /\ ~Cancelled
    /\ ticks < lim.ticks
    /\ lock[AddrOf("fixed")] = "free"
    /\ IF poisoned[AddrOf("fixed")]
       THEN Panic("fixed") /\ ticks' = ticks
       ELSE /\ lock' = [lock EXCEPT ![AddrOf("fixed")] = "fixed"]
            /\ heap' = [heap EXCEPT ![AddrOf("fixed")] = prune(@)]
            /\ lastAccess' = <<AddrOf("fixed"), heap'[AddrOf("fixed")] # heap[AddrOf("fixed")]>>
            /\ snap' = [snap EXCEPT !["fixed"] = heap'[AddrOf("fixed")]]
            /\ seen' = [seen EXCEPT !["fixed"] = heap'[AddrOf("fixed")]]
            /\ calls' = [calls EXCEPT !["fixed"] = <<>>]
            /\ idx' = [idx EXCEPT !["fixed"] = 1]
            /\ ticks' = ticks + 1
            /\ deadAt' = [deadAt EXCEPT !.tick = Destroyed]
            /\ pc' = [pc EXCEPT !["fixed"] = "iter"]
            /\ UNCHANGED <<entVars, handle, family, poisoned, elock, counter, pass, holds,
                           tmp, quit, camera, pump, event, iter, instant, timestep, interval,
                           userOps, lim, done, batch, mlog>>

\* The entry the iterator of driver t stands on.
Entry(t) == heap[PassAddr(t)][idx[t]]

\* Fault: an upgrade that hands out a strong reference whether or not one is left.
UpgradeEntryAlways(t) ==
    /\ pc[t] = "iter"
    /\ idx[t] <= Len(heap[PassAddr(t)])
    /\ holds' = [holds EXCEPT ![t] = Entry(t)]
    /\ pc' = [pc EXCEPT ![t] = "elock"]
    /\ UNCHANGED <<entVars, conVars, lockVars, counter, pass, idx, tmp, quit, camera,
                   pump, event, iter, instant, timestep, interval, ticks, userOps, lim, histVars>>

\* Fault: a dispatch that skips an entry whose upgrade fails and goes on.
UpgradeEntrySkip(t) ==
    /\ pc[t] = "iter"
    /\ idx[t] <= Len(heap[PassAddr(t)])
    /\ IF Upgrade(Entry(t))
       THEN /\ holds' = [holds EXCEPT ![t] = Entry(t)]
            /\ pc' = [pc EXCEPT ![t] = "elock"]
            /\ UNCHANGED idx
       ELSE /\ idx' = [idx EXCEPT ![t] = @ + 1]
            /\ UNCHANGED <<holds, pc>>
    /\ UNCHANGED <<entVars, conVars, lockVars, counter, pass, tmp, quit, camera,
                   pump, event, iter, instant, timestep, interval, ticks, userOps, lim, histVars>>

\* entity.upgrade().unwrap(): the driver now holds a strong reference, or panics on None.
UpgradeEntry(t) ==
    /\ pc[t] = "iter"
    /\ idx[t] <= Len(heap[PassAddr(t)])
    /\ IF Upgrade(Entry(t))
       THEN /\ holds' = [holds EXCEPT ![t] = Entry(t)]
            /\ pc' = [pc EXCEPT ![t] = "elock"]
            /\ UNCHANGED <<entVars, conVars, lockVars, counter, pass, idx, tmp, quit, camera,
                           pump, event, iter, instant, timestep, interval, ticks, userOps, lim,
                           histVars>>
       ELSE Panic(t)

\* What the main driver records for a callback on entity e.
CallRecord(e) ==
    CASE pass["main"] = "event"  -> <<"on_event", e, event[1]>>
      [] pass["main"] = "update" -> <<"update", e, 0>>
      [] pass["main"] = "render" -> <<"render", e, 0>>

\* The positions of a driver inside a callback, the entity's guard held.
Callback == {"spawn", "spawn_render", "spawn_fixed", "call"}

\* The callback driver t is about to enter is the on_event of a spawner for a key
\* press, and the spawner has not created its block yet.
Spawns(t) ==
    /\ t = "main"
    /\ pass[t] = "event"
    /\ event[2] = "KeyDown"
    /\ \E p \in lim.spawns : p[1] = holds[t] /\ p[2] \notin created

\* The block of the spawner whose callback driver t is in.
Block(t) == (CHOOSE p \in lim.spawns : p[1] = holds[t])[2]

\* Entity e is the local `block` of an on_event that is running: the callback holds
\* the one strong reference until it hands it to self.blocks.
LocalBlock(e) ==
    \E t \in Driver : pc[t] \in {"spawn_render", "spawn_fixed"} /\ Block(t) = e

\* Fault: the callback is entered without taking the entity's mutex.
LockEntityUnguarded(t) ==
    /\ pc[t] = "elock"
    /\ elock' = [elock EXCEPT ![holds[t]] = t]
    /\ tmp' = [tmp EXCEPT ![t] = counter[holds[t]]]
    /\ calls' = [calls EXCEPT ![t] = Append(@, holds[t])]
    /\ mlog' = IF t = "main" THEN Append(mlog, CallRecord(holds[t])) ELSE mlog
    /\ pc' = [pc EXCEPT ![t] = "call"]
    /\ UNCHANGED <<entVars, conVars, lock, poisoned, counter, pass, idx, holds, quit, camera,
                   pump, event, iter, instant, timestep, interval, ticks, userOps, lim, deadAt, done,
                   snap, seen, batch>>

\* Fault: one mutex shared by all entities, so a callback excludes every other callback.
LockEntityGlobal(t) ==
    /\ pc[t] = "elock"
    /\ \A e \in Entities : elock[e] = "free"
    /\ elock' = [elock EXCEPT ![holds[t]] = t]
    /\ tmp' = [tmp EXCEPT ![t] = counter[holds[t]]]
    /\ calls' = [calls EXCEPT ![t] = Append(@, holds[t])]
    /\ mlog' = IF t = "main" THEN Append(mlog, CallRecord(holds[t])) ELSE mlog
    /\ pc' = [pc EXCEPT ![t] = "call"]
    /\ UNCHANGED <<entVars, conVars, lock, poisoned, counter, pass, idx, holds, quit, camera,
                   pump, event, iter, instant, timestep, interval, ticks, userOps, lim, deadAt, done,
                   snap, seen, batch>>

\* .lock().unwrap() on the entity, then the callback starts: it reads the counter.
LockEntity(t) ==
    /\ pc[t] = "elock"
    /\ elock[holds[t]] \in {"free", "poisoned"}
    /\ IF elock[holds[t]] = "poisoned"
       THEN Unwind(t)
       ELSE /\ elock' = [elock EXCEPT ![holds[t]] = t]
            /\ tmp' = [tmp EXCEPT ![t] = counter[holds[t]]]
            /\ calls' = [calls EXCEPT ![t] = Append(@, holds[t])]
            /\ mlog' = IF t = "main" THEN Append(mlog, CallRecord(holds[t])) ELSE mlog
            /\ pc' = [pc EXCEPT ![t] = IF Spawns(t) THEN "spawn" ELSE "call"]
            /\ UNCHANGED <<entVars, conVars, lock, poisoned, counter, pass, idx, holds, quit,
                           camera, pump, event, iter, instant, timestep, interval, ticks,
                           userOps, lim, deadAt, done, snap,
                           seen, batch>>

\* Spawner::on_event, first statement: let block = entity!(Block::new(..)).
SpawnNew(t) ==
    /\ pc[t] = "spawn"
    /\ created' = created \cup {Block(t)}
    /\ owned' = [owned EXCEPT ![Block(t)] = 1]
    /\ lastAccess' = NoAccess
    /\ pc' = [pc EXCEPT ![t] = "spawn_render"]
    /\ UNCHANGED <<heap, handle, family, lockVars, counter, pass, idx, holds, tmp, quit,
                   camera, pump, event, iter, instant, timestep, interval, ticks, userOps, lim,
                   histVars>>

\* Spawner::on_event, next: self.renderable_entities.add_entities(&[block]) and then
\* self.fixed_update_entities.add_entities(&[block]), each through the spawner's clone
\* (handles 7 and 6) and each taking the container's lock while the driver holds the
\* spawner's; the block stays owned by the spawner (self.blocks.push(block)).
SpawnPush(t) ==
    /\ pc[t] \in {"spawn_render", "spawn_fixed"}
    /\ LET c == IF pc[t] = "spawn_render" THEN "render" ELSE "fixed"
       IN /\ lock[AddrOf(c)] = "free"
          /\ IF poisoned[AddrOf(c)]
             THEN Unwind(t)
             ELSE /\ add_entities(AddrOf(c) + 4, <<Block(t)>>)
                  /\ pc' = [pc EXCEPT ![t] = IF c = "render" THEN "spawn_fixed" ELSE "call"]
                  /\ UNCHANGED <<counter, pass, idx, holds, tmp, quit, camera, pump, event,
                                 iter, instant, timestep, interval, ticks, userOps, lim,
                                 histVars>>

\* Spawner::update: self.blocks.retain(..) inside the update callback of an owner drops
\* the strong reference the owner holds to an entity that fails the predicate.
BlocksRetain(t) ==
    /\ pc[t] = "call"
    /\ pass[t] = "update"
    /\ \E p \in lim.drops :
           /\ p[1] = holds[t]
           /\ owned[p[2]] >= 1
           /\ owned' = [owned EXCEPT ![p[2]] = @ - 1]
    /\ lastAccess' = NoAccess
    /\ UNCHANGED <<created, heap, handle, family, lockVars, drvVars, userOps, lim, histVars>>

\* The callback panics: the unwinding drops the entity's guard, which poisons the
\* entity's mutex, then the upgraded Arc and the container's guard.
CallbackPanic(t) ==
    /\ pc[t] = "call"
    /\ holds[t] \in lim.panics
    /\ Unwind(t)

\* Fault: a dispatch that keeps each entity's guard until the pass ends.
ReturnKeepsGuard(t) ==
    /\ pc[t] = "call"
    /\ counter' = [counter EXCEPT ![holds[t]] = tmp[t] + 1]
    /\ done' = [done EXCEPT ![t][holds[t]] = @ + 1]
    /\ holds' = [holds EXCEPT ![t] = NoEnt]
    /\ idx' = [idx EXCEPT ![t] = @ + 1]
    /\ pc' = [pc EXCEPT ![t] = "iter"]
    /\ UNCHANGED <<entVars, conVars, lockVars, pass, tmp, quit, camera, pump, event,
                   iter, instant, timestep, interval, ticks, userOps, lim, deadAt, calls, snap, seen,
                   batch, mlog>>

\* The callback writes the counter and returns; the entity guard and the upgraded Arc
\* are dropped; the iterator advances.
Return(t) ==
    /\ pc[t] = "call"
    /\ counter' = [counter EXCEPT ![holds[t]] = tmp[t] + 1]
    /\ done' = [done EXCEPT ![t][holds[t]] = @ + 1]
    /\ elock' = [elock EXCEPT ![holds[t]] = "free"]
    /\ holds' = [holds EXCEPT ![t] = NoEnt]
    /\ idx' = [idx EXCEPT ![t] = @ + 1]
    /\ pc' = [pc EXCEPT ![t] = "iter"]
    /\ UNCHANGED <<entVars, conVars, lock, poisoned, pass, tmp, quit, camera, pump, event,
                   iter, instant, timestep, interval, ticks, userOps, lim, deadAt, calls, snap, seen,
                   batch, mlog>>

\* Fault: one reference instant shared by the two drivers.
ResetInstantShared(t) == [d \in Driver |-> InstantNow]

\* standard_instant = Instant::now() after the update pass, fixed_update_instant =
\* Instant::now() at the end of the timer closure: driver t resets its own instant.
ResetInstant(t) == [instant EXCEPT ![t] = InstantNow]

\* Fault: a main loop without `if renderer.has_quit() { break; }`.
EndPassNoQuitCheck(t) ==
    /\ pc[t] = "iter"
    /\ idx[t] > Len(heap[PassAddr(t)])
    /\ lock' = [lock EXCEPT ![PassAddr(t)] = "free"]
    /\ pc' = [pc EXCEPT ![t] =
                CASE pass[t] = "event"  -> "poll"
                  [] pass[t] = "update" -> "render"
                  [] pass[t] = "render" -> "present"
                  [] pass[t] = "fixed"  -> "idle"]
    /\ instant' = IF pass[t] \in {"update", "fixed"} THEN ResetInstant(t) ELSE instant
    /\ UNCHANGED <<entVars, conVars, poisoned, elock, counter, pass, idx, holds, tmp, quit,
                   camera, pump, event, iter, ticks, timestep, interval, userOps, lim, histVars>>

\* Fault: a main loop that breaks after its update pass whether or not quit is set.
EndPassBreakAlways(t) ==
    /\ pc[t] = "iter"
    /\ idx[t] > Len(heap[PassAddr(t)])
    /\ lock' = [lock EXCEPT ![PassAddr(t)] = "free"]
    /\ pc' = [pc EXCEPT ![t] =
                CASE pass[t] = "event"  -> "poll"
                  [] pass[t] = "update" -> "done"
                  [] pass[t] = "render" -> "present"
                  [] pass[t] = "fixed"  -> "idle"]
    /\ instant' = IF pass[t] \in {"update", "fixed"} THEN ResetInstant(t) ELSE instant
    /\ UNCHANGED <<entVars, conVars, poisoned, elock, counter, pass, idx, holds, tmp, quit,
                   camera, pump, event, iter, ticks, timestep, interval, userOps, lim, histVars>>

\* The iterator is exhausted: the container guard is dropped, and the driver goes on.
\*   on_event fan-out: back to poll_iter;
\*   update pass: standard_instant is reset, then `if renderer.has_quit() { break; }`
\*                and Ok(()), else renderer.render(..);
\*   render pass: canvas.present() is next;
\*   timer closure: fixed_update_instant is reset and the closure returns.
EndPass(t) ==
    /\ pc[t] = "iter"
    /\ idx[t] > Len(heap[PassAddr(t)])
    /\ lock' = [lock EXCEPT ![PassAddr(t)] = "free"]
    /\ pc' = [pc EXCEPT ![t] =
                CASE pass[t] = "event"  -> "poll"
                  [] pass[t] = "update" -> IF quit THEN "done" ELSE "render"
                  [] pass[t] = "render" -> "present"
                  [] pass[t] = "fixed"  -> "idle"]
    /\ instant' = IF pass[t] \in {"update", "fixed"} THEN ResetInstant(t) ELSE instant
    /\ UNCHANGED <<entVars, conVars, poisoned, elock, counter, pass, idx, holds, tmp, quit,
                   camera, pump, event, iter, ticks, timestep, interval, userOps, lim, histVars>>

\* Renderer::render up to the loop: nothing without a camera; else camera.update(..),
\* set_draw_color, clear.
RenderBegin ==
    /\ pc["main"] = "render"
    /\ IF camera
       THEN /\ deadAt' = [deadAt EXCEPT !.render = Destroyed]
            /\ mlog' = mlog \o <<<<"viewport", NoEnt, 0>>, <<"clear", NoEnt, 0>>>>
            /\ pass' = [pass EXCEPT !["main"] = "render"]
            /\ pc' = [pc EXCEPT !["main"] = "access"]
       ELSE /\ pc' = [pc EXCEPT !["main"] = "loop"]
            /\ UNCHANGED <<mlog, pass, deadAt>>
    /\ UNCHANGED <<entVars, conVars, lockVars, counter, idx, holds, tmp, quit, camera, pump,
                   event, iter, instant, timestep, interval, ticks, userOps, lim, done, calls,
                   snap, seen, batch>>

\* canvas.present(), and the loop starts over.
Present ==
    /\ pc["main"] = "present"
    /\ mlog' = Append(mlog, <<"present", NoEnt, 0>>)
    /\ pc' = [pc EXCEPT !["main"] = "loop"]
    /\ UNCHANGED <<entVars, conVars, lockVars, counter, pass, idx, holds, tmp, quit, camera,
                   pump, event, iter, instant, timestep, interval, ticks, userOps, lim, deadAt, done,
                   calls, snap, seen, batch>>

\* User code running beside the drivers (another thread, or a callback on the other
\* driver) that holds a clone of a Game container and strong references: it registers
\* an entity it owns (add_entities of a one-element slice) or a longer slice of them,
\* clears a container, or drops a strong reference.
UserPush(h, e) ==
    /\ userOps < lim.userOps
    /\ family[h] # h
    /\ push(h, e)
    /\ userOps' = userOps + 1
    /\ UNCHANGED <<drvVars, lim, histVars>>

\* The slices user code registers at once while the game runs: [B, A] and [C, C].
UserSlices == {s \in Slices : s \in {<<2, 1>>, <<3, 3>>}}

UserAdd(h, other) ==
    /\ userOps < lim.userOps
    /\ family[h] # h
    /\ add_entities(h, other)
    /\ userOps' = userOps + 1
    /\ UNCHANGED <<drvVars, lim, histVars>>

UserClear(h) ==
    /\ userOps < lim.userOps
    /\ family[h] # h
    /\ clear(h)
    /\ userOps' = userOps + 1
    /\ UNCHANGED <<drvVars, lim, histVars>>

\* Fault: a drop that takes the entity's entries out of every container along with the
\* last strong reference.
UserDropEager(e) ==
    /\ userOps < lim.userOps
    /\ owned[e] >= 1
    /\ ~LocalBlock(e)
    /\ owned' = [owned EXCEPT ![e] = @ - 1]
    /\ heap' = [a \in DOMAIN heap |->
                    IF StrongCount(e) = 1
                    THEN SelectSeq(heap[a], LAMBDA d : d # e) ELSE heap[a]]
    /\ userOps' = userOps + 1
    /\ lastAccess' = NoAccess
    /\ UNCHANGED <<created, handle, family, lockVars, drvVars, lim, histVars>>

\* drop(entity) in user code while the game runs: one strong reference fewer.
UserDrop(e) ==
    /\ userOps < lim.userOps
    /\ owned[e] >= 1
    /\ ~LocalBlock(e)
    /\ owned' = [owned EXCEPT ![e] = @ - 1]
    /\ userOps' = userOps + 1
    /\ lastAccess' = NoAccess
    /\ UNCHANGED <<created, heap, handle, family, lockVars, drvVars, lim, histVars>>

\* Game::new() started as it is, with a camera: nothing is ever registered.
NewGame ==
    Scenario(GameDefault.update, GameDefault.fixed, GameDefault.render,
             GameDefault.interactive, {}, TRUE, 1, 1, 1, 0, {}, {})

\* Scenarios: Game::new(), the four containers populated through add_entities, clones
\* of some containers handed to user code, a renderer with or without a camera, and
\* then game.start(&mut renderer). Entities 1, 2, 3 are A, B, C of the documentation.
Scenarios ==
    { \* A, B, C, B in the update container, one update pass and one timer callback
      Scenario(<<1, 2, 3, 2>>, <<3>>, <<>>, <<>>, {}, FALSE, 1, 1, 0, 0, {}, {}),
      \* input: two interactive entities and event batches
      Scenario(<<1>>, <<>>, <<2>>, <<1, 2>>, {}, TRUE, MaxIter, 0, MaxBatch, 0, {}, {}),
      \* one entity shared by both drivers, another only fixed-updated
      Scenario(<<1>>, <<1, 2>>, <<1>>, <<1>>, {}, TRUE, MaxIter, MaxTicks, 1, 0, {}, {}),
      \* user code drops, registers and clears while the drivers run
      Scenario(<<1, 2>>, <<2, 1>>, <<>>, <<>>, {"update", "fixed"}, FALSE, 1, 1, 0, MaxUserOps,
               {}, {}),
      \* callbacks that panic: one entity only fixed-updated, one shared by both drivers
      Scenario(<<1>>, <<2, 1>>, <<>>, <<>>, {}, FALSE, MaxIter, 1, 0, 0, {1, 2}, {}),
      \* A, B, C, B in the update container while user code drops its entities
      Scenario(<<1, 2, 3, 2>>, <<>>, <<>>, <<>>, {}, FALSE, 1, 0, 0, MaxUserOps, {}, {}),
      \* input while user code drops, registers and clears interactive entities
      Scenario(<<>>, <<>>, <<>>, <<1, 2>>, {"interactive"}, FALSE, 1, 0, 1, MaxUserOps, {}, {}),
      \* rendering while user code drops, registers and clears renderable entities
      Scenario(<<>>, <<>>, <<1, 2>>, <<>>, {"render"}, TRUE, 1, 0, 0, MaxUserOps, {}, {}),
      \* the spawner: interactive, rendered and fixed-updated, it creates block C on a
      \* key press and registers it for rendering and fixed update
      Scenario(<<>>, <<1>>, <<1>>, <<1>>, {"render", "fixed"}, TRUE, 1, MaxTicks, 1, 0, {},
               {<<1, 3>>}),
      \* the spawner again, while user code drops, registers and clears
      Scenario(<<>>, <<1>>, <<>>, <<1>>, {"render", "fixed"}, FALSE, 1, 1, 1, MaxUserOps, {},
               {<<1, 3>>}),
      \* a game whose timestep user code sets to 5 ms, to 40 ms, or leaves alone
      [Scenario(<<1>>, <<2, 1>>, <<3>>, <<1>>, {}, FALSE, 1, 1, 0, 0, {}, {})
           EXCEPT !.timesteps = {5, 40}],
      \* an owner A between two entries of B in the update container: A's update may
      \* drop the one strong reference to B
      [Scenario(<<2, 1, 2>>, <<>>, <<>>, <<>>, {}, FALSE, MaxIter, 0, 0, 0, {}, {})
           EXCEPT !.drops = {<<1, 2>>}],
      \* start called again with the renderer of a run that ended on quit
      [Scenario(<<1, 2>>, <<1>>, <<2>>, <<1>>, {}, TRUE, MaxIter, 1, 1, 0, {}, {})
           EXCEPT !.quit = TRUE],
      NewGame }

Init ==
    /\ lim \in Scenarios
    \* a spawner's block does not exist before the spawner creates it
    /\ created = {1, 2, 3} \ {p[2] : p \in lim.spawns}
    /\ owned = [e \in {1, 2, 3} |-> IF \E p \in lim.spawns : p[2] = e THEN 0 ELSE 1]
    /\ heap = [a \in 1..4 |-> CASE a = AddrOf("update") -> lim.update
                                [] a = AddrOf("fixed") -> lim.fixed
                                [] a = AddrOf("render") -> lim.render
                                [] a = AddrOf("interactive") -> lim.interactive]
    \* handles 1..4 are the fields of Game, handles 5..8 the clones user code holds
    /\ handle = [h \in 1..8 |->
                    IF h <= 4 THEN h
                    ELSE IF \E c \in lim.clones : AddrOf(c) = h - 4 THEN h - 4 ELSE NoAddr]
    /\ family = [h \in 1..8 |-> IF h <= 4 THEN h ELSE h - 4]
    /\ camera = lim.camera
    /\ pc = [t \in Driver |-> IF t = "main" THEN "init" ELSE "unscheduled"]
    /\ Idle

Next ==
    \/ \E t \in lim.timesteps : WithTimestep(t)
    \/ StartOk
    \/ StartErr
    \/ ProcessEventBegin
    \/ Access
    \/ Poll
    \/ LockPass
    \/ Tick
    \/ \E t \in Driver : UpgradeEntry(t)
    \/ \E t \in Driver : LockEntity(t)
    \/ \E t \in Driver : Return(t)
    \/ \E t \in Driver : SpawnNew(t)
    \/ \E t \in Driver : SpawnPush(t)
    \/ \E t \in Driver : BlocksRetain(t)
    \/ \E t \in Driver : CallbackPanic(t)
    \/ \E t \in Driver : EndPass(t)
    \/ RenderBegin
    \/ Present
    \/ \E e \in Entities : UserDrop(e)
    \/ \E h \in DOMAIN handle, e \in Entities : UserPush(h, e)
    \/ \E h \in DOMAIN handle : \E other \in UserSlices : UserAdd(h, other)
    \/ \E h \in DOMAIN handle : UserClear(h)

Spec == Init /\ [][Next]_vars

\* ================================================================= properties
\* ------------------------------------------------------ container API (SpecAPI)

\* C1: liveness pruning. For every entity E that has zero strong references and every
\* container C, an access() on C leaves C with no entry referring to E.
C1_LivenessPruning ==
    \A a \in DOMAIN heap :
        lastAccess[1] = a => \A e \in Entities : StrongCount(e) = 0 => e \notin Range(heap[a])

\* An access() has just removed entries from a container and left it empty, the
\* entity registered there having lost its last strong reference.
C1_Witness ==
    \E a \in DOMAIN heap :
        /\ lastAccess = <<a, TRUE>>
        /\ heap[a] = <<>>
        /\ \E e \in created : StrongCount(e) = 0

\* C9: clone shares state. Entities values cloned from one another observe the
\* identical sequence after any operations issued through either of them, and the
\* clone operation itself adds no entry, creates no container and copies no entity.
C9_CloneSharesState ==
    /\ [](\A h1, h2 \in Handle :
             (handle[h1] # NoAddr /\ handle[h2] # NoAddr /\ family[h1] = family[h2])
                 => heap[handle[h1]] = heap[handle[h2]])
    /\ [][\A h \in Handle :
             EntitiesClone(h) => heap' = heap /\ owned' = owned /\ created' = created]_vars

\* A container and a clone of it, with registrations visible through both.
C9_Witness ==
    \E h1, h2 \in Handle :
        /\ h1 # h2
        /\ handle[h1] # NoAddr /\ handle[h2] # NoAddr
        /\ family[h1] = family[h2]
        /\ heap[handle[h1]] # <<>>
        /\ heap[handle[h2]] = heap[handle[h1]]

\* C10: multi-container independence. An access() on one container removes that
\* container's entries for entities without strong references, whichever container
\* is accessed first, and leaves the sequence of every other container unchanged.
C10_MultiContainerIndependence ==
    [][\A h \in Handle :
          access(h) =>
              /\ \A a \in DOMAIN heap \ {handle[h]} : heap'[a] = heap[a]
              /\ \A e \in Entities :
                     StrongCount(e) = 0 => e \notin Range(heap'[handle[h]])]_vars

\* The one dead entity was registered in two containers; an access() has just removed
\* its entry from one of them, and the other still holds its entry.
C10_Witness ==
    \E a, b \in DOMAIN heap : \E e \in created :
        /\ a # b
        /\ lastAccess = <<a, TRUE>>
        /\ {d \in created : StrongCount(d) = 0} = {e}
        /\ e \notin Range(heap[a])
        /\ e \in Range(heap[b])

\* ------------------------------------------------------------ Game::start (Spec)

\* C2: exclusive access. At most one callback executes on a given entity at any time,
\* and the entity's counter, incremented by read-then-write in every callback of
\* either driver, equals the number of callbacks completed on it: no update is lost.
C2_ExclusiveAccess ==
    \A e \in Entities :
        /\ Cardinality({t \in Driver : pc[t] \in Callback /\ holds[t] = e}) <= 1
        /\ counter[e] = done["main"][e] + done["fixed"][e]

\* Both drivers have incremented the same entity, the main driver is inside a
\* callback on it again and the fixed driver waits for its lock.
C2_Witness ==
    \E e \in Entities :
        /\ pc["main"] = "call" /\ holds["main"] = e
        /\ pc["fixed"] = "elock" /\ holds["fixed"] = e
        /\ done["main"][e] >= 1
        /\ done["fixed"][e] >= 1

\* C3: no dispatch reaches a dead weak reference. Every entry that survived the
\* preceding prune is alive when the driver's iterator reaches it and upgrades it.
C3_UpgradeSucceeds ==
    \A t \in Driver :
        (/\ pc[t] = "iter"
         /\ idx[t] <= Len(heap[PassAddr(t)])
         /\ heap[PassAddr(t)] = snap[t])
            => Upgrade(Entry(t))

\* C4: access() returns the sequence still under lock. The sequence the main driver
\* iterates is the one its access() pruned: no other thread pushed, cleared or
\* pruned between the prune and the dispatch.
C4_IteratesWhatItPruned ==
    pc["main"] \in {"iter", "elock"} \cup Callback => seen["main"] = snap["main"]

\* C5: insertion-order dispatch. The call sequence of a completed pass equals the
\* container's post-prune sequence, one call per entry, duplicates included.
C5_InsertionOrderDispatch ==
    \A t \in Driver :
        (pc[t] = "iter" /\ idx[t] > Len(heap[PassAddr(t)])) => calls[t] = snap[t]

\* Position of the first quit event of batch b, Len(b) + 1 if it holds none.
FirstQuit(b) ==
    IF \E i \in DOMAIN b : b[i] = "Quit"
    THEN Lowest({i \in DOMAIN b : b[i] = "Quit"})
    ELSE Len(b) + 1

\* The records of one kind in the main driver's log, in order.
Records(kind) == SelectSeq(mlog, LAMBDA r : r[1] = kind)

\* Batch positions of the events the log shows under records of one kind.
Positions(kind) == {Records(kind)[i][3] : i \in DOMAIN Records(kind)}

\* process_event of the current iteration has returned.
Polled == pass["main"] \in {"update", "render"}

\* C6: quit preempts remaining input. Of the batch polled in one iteration only the
\* events before the first quit event are dispatched to interactive entities; the
\* quit event and the events after it never reach on_event, and the quit flag is set.
C6_QuitPreempts ==
    /\ \A i \in Positions("on_event") \cup Positions("fanout") :
           i < FirstQuit(batch) /\ batch[i] # "Quit"
    /\ Polled =>
           /\ Positions("fanout") = 1..(FirstQuit(batch) - 1)
           /\ quit <=> (lim.quit \/ FirstQuit(batch) <= Len(batch))
           /\ pump = SubSeq(batch, FirstQuit(batch) + 1, Len(batch))

\* The batch [KeyDown, Quit, KeyUp] has been polled: KeyDown went to every interactive
\* entity, KeyUp is still queued, and the flag is set.
C6_Witness ==
    /\ batch = <<"KeyDown", "Quit", "KeyUp">>
    /\ Polled
    /\ quit
    /\ Positions("on_event") = {1}
    /\ {Records("on_event")[i][2] : i \in DOMAIN Records("on_event")}
           = Range(heap[AddrOf("interactive")])
    /\ Cardinality(Range(heap[AddrOf("interactive")])) = 2
    /\ pump = <<"KeyUp">>

\* C7: terminal iteration. Once quit is observed no render step (viewport update,
\* clear, render call, present) is executed; the loop exits only with the flag set
\* and after an update pass that ran, after event polling, over every entry of the
\* update container.
C7_TerminalIteration ==
    /\ quit =>
           /\ Records("viewport") = <<>> /\ Records("clear") = <<>>
           /\ Records("render") = <<>> /\ Records("present") = <<>>
           /\ pc["main"] \notin {"render", "present"}
           /\ pass["main"] # "render"
    /\ pc["main"] = "done" =>
           /\ quit
           /\ pass["main"] = "update"
           /\ calls["main"] = seen["main"]
           /\ [i \in DOMAIN Records("update") |-> Records("update")[i][2]] = calls["main"]
           /\ \/ lim.quit
              \/ \E q \in DOMAIN mlog :
                     /\ mlog[q][1] = "quit"
                     /\ \A i \in DOMAIN mlog : mlog[i][1] = "update" => i > q

\* The loop has exited on quit, with a camera attached, after updating an entity.
C7_Witness ==
    /\ pc["main"] = "done"
    /\ camera
    /\ Records("update") # <<>>

\* The other driver.
Other(t) == IF t = "main" THEN "fixed" ELSE "main"

\* The next step of driver t inside a dispatch pass.
PassStep(t) ==
    \/ UpgradeEntry(t) \/ LockEntity(t) \/ SpawnNew(t) \/ SpawnPush(t) \/ BlocksRetain(t)
    \/ Return(t) \/ EndPass(t)

C11_NoOwnership ==
    /\ [][\A h \in Handle :
             ((\E e \in Ent : push(h, e)) \/ (\E other \in Slices : add_entities(h, other)))
                 => \A d \in Entities : StrongCount(d)' = StrongCount(d)]_vars
    /\ [][\A e \in Ent : (EntityDrop(e) /\ owned[e] = 1) => ~Upgrade(e)']_vars

\* An entity registered in both containers has been destroyed by its owner's drop;
\* both entries are still there.
C11_Witness ==
    \E e \in created :
        /\ StrongCount(e) = 0
        /\ \A a \in DOMAIN heap : e \in Range(heap[a])

\* ------------------------------------------------- Game::start, continued

\* C12: entity lifetime. A weak reference upgrades exactly when the entity's strong
\* count is greater than zero, and an entity whose strong count has reached zero
\* keeps it at zero: every later upgrade fails as well.
C12_EntityLifetime ==
    /\ [][\A e \in created : StrongCount(e) = 0 => StrongCount(e)' = 0]_vars
    /\ [][\A t \in Driver :
             UpgradeEntry(t) =>
                 /\ (pc'[t] = "elock" /\ holds'[t] = Entry(t)) <=> StrongCount(Entry(t)) > 0
                 /\ (pc'[t] = "panicked" /\ holds'[t] = NoEnt) <=> StrongCount(Entry(t)) = 0]_vars

\* A driver's upgrade has failed on the entry of an entity its owner dropped after
\* the prune.
C12_Witness ==
    \E t \in Driver :
        /\ pc[t] = "panicked"
        /\ idx[t] <= Len(heap[PassAddr(t)])
        /\ StrongCount(Entry(t)) = 0
        /\ \E d \in Entities : done[t][d] >= 1

\* The steps of the thread that called start, once initialisation has succeeded.
MainStep ==
    \/ StartOk \/ ProcessEventBegin \/ Access \/ Poll \/ LockPass
    \/ PassStep("main") \/ RenderBegin \/ Present

\* The steps of the timer thread.
FixedStep == Tick \/ PassStep("fixed")

\* Game::start with both threads scheduled: a thread that can take a step eventually
\* takes one, which includes that every callback entered returns.
SpecFair == Spec /\ WF_vars(MainStep) /\ WF_vars(FixedStep)

\* What holds of start and quit (C13): the loop is left only with the quit flag set,
\* in an iteration whose event poll observed the quit event or, the renderer's flag
\* being set already when start was called, in the first iteration; once an iteration
\* has begun with or has set the flag no further iteration begins; and when a quit
\* event is polled and the callbacks return, start returns in that iteration.
C13_BlocksUntilQuit ==
    /\ [](pc["main"] = "done" => quit /\ (Records("quit") # <<>> \/ (lim.quit /\ iter = 1)))
    /\ [][(quit /\ iter >= 1) => iter' = iter]_vars
    /\ (Records("quit") # <<>> ~> pc["main"] = "done")

\* start has returned Ok in the second iteration of the loop: the first one polled
\* no quit event and rendered.
C13_Witness ==
    /\ pc["main"] = "done"
    /\ iter = 2
    /\ Records("quit") # <<>>

\* C13: start blocks until quit. The main loop leaves its loop, and start returns Ok,
\* only in an iteration whose event poll observed the quit event.
C13_LeftOnlyOnPolledQuit ==
    pc["main"] = "done" => Records("quit") # <<>>

\* C14: fixed driver cancellation. After start has returned the timer starts no new
\* fixed-update pass: an idle timer thread stays idle, so that at most the pass that
\* was in progress when start returned still completes.
C14_NoNewPassAfterReturn ==
    [][Cancelled =>
          /\ ticks' = ticks
          /\ pc["fixed"] = "idle" => (pc'["fixed"] = "idle" /\ done'["fixed"] = done["fixed"])]_vars

\* start has returned Ok between two timer callbacks: the first pass has run, the
\* timer thread is idle, and the schedule would have fired again.
C14_Witness ==
    /\ pc["main"] = "done"
    /\ pc["fixed"] = "idle"
    /\ ticks >= 1
    /\ ticks < lim.ticks

\* C14 as stated: after start has returned no fixed_update callback is invoked.
C14_NoCallbackAfterReturn ==
    [][pc["main"] = "done" => ~LockEntity("fixed")]_vars

\* The vector user code put behind address a before it called start.
Population(a) ==
    CASE a = AddrOf("update") -> lim.update
      [] a = AddrOf("fixed") -> lim.fixed
      [] a = AddrOf("render") -> lim.render
      [] a = AddrOf("interactive") -> lim.interactive

\* C15: startup failure. When start has returned an initialisation error the timer
\* was never scheduled, no loop iteration and no timer callback has begun, no
\* update, fixed_update, on_event or render callback has been invoked, and start has
\* neither pruned nor otherwise changed a container.
C15_StartupFailure ==
    pc["main"] = "err" =>
        /\ pc["fixed"] = "unscheduled"
        /\ iter = 0 /\ ticks = 0 /\ quit = lim.quit
        /\ mlog = <<>>
        /\ \A t \in Driver : calls[t] = <<>> /\ \A e \in Entities : done[t][e] = 0
        /\ \A e \in Entities : counter[e] = 0 /\ elock[e] = "free"
        /\ lastAccess = NoAccess
        /\ \A a \in DOMAIN heap : lock[a] = "free" /\ ~poisoned[a]
        /\ userOps = 0 => \A a \in DOMAIN heap : heap[a] = Population(a)

\* start has returned an error for a game whose four containers hold entities and
\* whose timer would have fired.
C15_Witness ==
    /\ pc["main"] = "err"
    /\ \A a \in DOMAIN heap : Population(a) # <<>>
    /\ lim.ticks >= 1 /\ lim.iters >= 1

\* C16: lock poisoning is propagated. Once a fixed_update callback has panicked on
\* the timer thread (which poisons the entity's mutex and the container's), the run
\* stops: the main driver does not go on to another loop iteration.
C16_PanicStopsRun ==
    [][(pc["fixed"] = "panicked" /\ \E e \in Entities : elock[e] = "poisoned")
          => iter' = iter]_vars

\* C17: upgrade failure at dispatch is fatal. A driver whose upgrade fails at an
\* entry panics there without invoking a callback, and a driver that has panicked
\* dispatches nothing further: the remaining entries of its pass are never called.
C17_UpgradeFailureFatal ==
    /\ [][\A t \in Driver :
             (UpgradeEntry(t) /\ ~Upgrade(Entry(t)))
                 => pc'[t] = "panicked" /\ calls' = calls /\ done' = done /\ idx' = idx]_vars
    /\ [][\A t \in Driver :
             pc[t] = "panicked"
                 => /\ pc'[t] = "panicked"
                    /\ calls'[t] = calls[t] /\ done'[t] = done[t] /\ idx'[t] = idx[t]]_vars

\* A driver has panicked at a dead entry with a later entry of the pass undispatched.
C17_Witness ==
    \E t \in Driver :
        /\ pc[t] = "panicked"
        /\ idx[t] < Len(heap[PassAddr(t)])
        /\ StrongCount(Entry(t)) = 0
        /\ Len(calls[t]) = idx[t] - 1
        /\ StrongCount(heap[PassAddr(t)][idx[t] + 1]) > 0

\* The number of entries of sequence s that refer to entity e.
Count(e, s) == Cardinality({i \in DOMAIN s : s[i] = e})

\* C18: push appends one weak reference. A registration of one entity lengthens the
\* container's sequence by exactly one entry, at the end, whether or not the entity
\* is registered there already, leaving the existing entries and their order (and
\* the other containers) as they were; and a pass dispatches to an entity once per
\* entry, so k times to an entity registered k times.
C18_PushAppendsOne ==
    /\ [][\A h \in DOMAIN handle : \A e \in Entities :
             push(h, e) =>
                 /\ Len(heap'[handle[h]]) = Len(heap[handle[h]]) + 1
                 /\ SubSeq(heap'[handle[h]], 1, Len(heap[handle[h]])) = heap[handle[h]]
                 /\ heap'[handle[h]][Len(heap[handle[h]]) + 1] = e
                 /\ \A a \in DOMAIN heap \ {handle[h]} : heap'[a] = heap[a]]_vars
    /\ [](\A t \in Driver :
             (pc[t] = "iter" /\ idx[t] > Len(heap[PassAddr(t)]))
                 => \A e \in Entities : Count(e, calls[t]) = Count(e, seen[t]))

\* User code registered entity 1 a second time while the game ran, and the update
\* pass that followed called it twice.
C18_Witness ==
    /\ userOps = 1
    /\ pc["main"] = "iter" /\ pass["main"] = "update"
    /\ idx["main"] > Len(heap[AddrOf("update")])
    /\ heap[AddrOf("update")] = <<1, 2, 1>>
    /\ calls["main"] = <<1, 2, 1>>

\* C19: add_entities appends the slice. An add_entities(slice) step leaves the
\* container with its earlier entries followed by one entry per element of the slice,
\* in slice order: the length grows by the slice's length.
C19_AddEntitiesAppendsSlice ==
    [][\A h \in DOMAIN handle : \A other \in Slices :
          add_entities(h, other) =>
              /\ Len(heap'[handle[h]]) = Len(heap[handle[h]]) + Len(other)
              /\ heap'[handle[h]] = heap[handle[h]] \o other
              /\ \A a \in DOMAIN heap \ {handle[h]} : heap'[a] = heap[a]]_vars

\* User code has added the slice [2, 1] to the update container that held [1, 2].
C19_Witness ==
    /\ userOps = 1
    /\ Population(AddrOf("update")) = <<1, 2>>
    /\ heap[AddrOf("update")] = <<1, 2, 2, 1>>

\* C20: clear empties the container and touches no entity. A clear step leaves the
\* sequence empty as seen through every handle of the container (the one cleared and
\* all its clones), leaves the other containers alone, and leaves every entity's
\* strong count and liveness as they were; and a pass only ever calls an entity that
\* has an entry in the container it holds locked, so a cleared container dispatches
\* to nobody until something is registered again.
C20_ClearEmpties ==
    /\ [][\A h \in DOMAIN handle :
             UserClear(h) =>
                 /\ \A g \in DOMAIN handle :
                        handle[g] = handle[h] => heap'[handle'[g]] = <<>>
                 /\ \A a \in DOMAIN heap \ {handle[h]} : heap'[a] = heap[a]
                 /\ \A e \in Entities :
                        /\ StrongCount(e)' = StrongCount(e)
                        /\ Upgrade(e)' = Upgrade(e)]_vars
    /\ [](\A t \in Driver :
             pc[t] \in {"elock"} \cup Callback =>
                 /\ lock[PassAddr(t)] = t
                 /\ holds[t] \in Range(heap[PassAddr(t)]))
    /\ [](\A t \in Driver :
             (pc[t] = "iter" /\ idx[t] > Len(heap[PassAddr(t)]) /\ seen[t] = <<>>)
                 => calls[t] = <<>>)

\* User code cleared the update container, which held [1, 2], through its clone; both
\* entities are still alive with their one owner, the game's own handle sees the
\* container empty, and the update pass that followed called nobody.
C20_Witness ==
    /\ userOps = 1
    /\ Population(AddrOf("update")) = <<1, 2>>
    /\ handle[5] = AddrOf("update")
    /\ heap[handle[1]] = <<>> /\ heap[handle[5]] = <<>>
    /\ \A e \in {1, 2} : Upgrade(e) /\ StrongCount(e) = 1
    /\ pc["main"] = "iter" /\ pass["main"] = "update"
    /\ seen["main"] = <<>> /\ calls["main"] = <<>>

\* The entries of sequence s whose upgrade fails.
Dead(s) == {i \in DOMAIN s : ~Upgrade(s[i])}

\* C21: prune removes exactly the dead entries. Every prune a driver performs leaves
\* the vector with the entries whose entity has a strong reference, all of them and
\* in their earlier relative order, and shortens it by the number of entries whose
\* upgrade failed.
C21_PruneRemovesExactlyDead ==
    [][/\ (Access /\ ~poisoned[PassAddr("main")]) =>
              /\ heap'[PassAddr("main")]
                     = SelectSeq(heap[PassAddr("main")], LAMBDA e : StrongCount(e) >= 1)
              /\ Len(heap[PassAddr("main")]) - Len(heap'[PassAddr("main")])
                     = Cardinality(Dead(heap[PassAddr("main")]))
       /\ (Tick /\ ~poisoned[AddrOf("fixed")]) =>
              /\ heap'[AddrOf("fixed")]
                     = SelectSeq(heap[AddrOf("fixed")], LAMBDA e : StrongCount(e) >= 1)
              /\ Len(heap[AddrOf("fixed")]) - Len(heap'[AddrOf("fixed")])
                     = Cardinality(Dead(heap[AddrOf("fixed")]))]_vars

\* The update container held A, B, C, B; user code dropped B, and the main driver's
\* prune has removed both of B's entries and kept A before C.
C21_Witness ==
    /\ Population(AddrOf("update")) = <<1, 2, 3, 2>>
    /\ StrongCount(2) = 0
    /\ pc["main"] = "lock" /\ pass["main"] = "update"
    /\ lastAccess = <<AddrOf("update"), TRUE>>
    /\ heap[AddrOf("update")] = <<1, 3>>

\* The phase of the loop body a log record belongs to: process_event, the update
\* pass, the render step.
Phase(kind) ==
    CASE kind \in {"quit", "fanout", "on_event"} -> 1
      [] kind = "update" -> 2
      [] kind \in {"viewport", "clear", "render", "present"} -> 3

\* The update pass of the current iteration has called every entry of the update
\* container (which nothing changes when user code issues no operation).
UpdatePassComplete ==
    lim.userOps = 0 =>
        [i \in DOMAIN Records("update") |-> Records("update")[i][2]] = heap[AddrOf("update")]

\* C22: main-loop phase order. Within an iteration the main driver's on_event calls all
\* precede its update calls, which all precede its render step; the quit check and the
\* render step are reached only after the update pass has called every entry, the
\* render step only with the flag unset; and an iteration begins only with no callback
\* of the main driver in progress and, when a camera is attached, after the present
\* of the iteration before it.
C22_PhaseOrder ==
    /\ [](\A i, j \in DOMAIN mlog : i < j => Phase(mlog[i][1]) <= Phase(mlog[j][1]))
    /\ []((pc["main"] \in {"render", "present", "done"} \/ pass["main"] = "render")
              => UpdatePassComplete)
    /\ []((pc["main"] \in {"render", "present"} \/ pass["main"] = "render") => ~quit)
    /\ [][iter' # iter =>
              /\ holds["main"] = NoEnt
              /\ \A a \in DOMAIN lock : lock[a] # "main"
              /\ (iter >= 1 /\ camera) =>
                     (mlog # <<>> /\ mlog[Len(mlog)][1] = "present")]_vars

\* The second iteration has dispatched an event, updated and rendered and is about
\* to present.
C22_Witness ==
    /\ iter = 2
    /\ pc["main"] = "present"
    /\ Records("on_event") # <<>>
    /\ Records("update") # <<>>
    /\ Records("render") # <<>>

\* The main driver is inside the fan-out of one event.
InFanOut == pass["main"] = "event" /\ pc["main"] \in {"iter", "elock"} \cup Callback

\* C23: event fan-out order. Events are handled one at a time in poll order (the
\* on_event calls of the iteration are ordered by the position of their event in the
\* batch), and when the main driver leaves the fan-out of an event it has called, in
\* container order and once per entry, every entry of the interactive container
\* whose entity is alive.
C23_EventFanOut ==
    /\ [](\A i, j \in DOMAIN Records("on_event") :
             i < j => Records("on_event")[i][3] <= Records("on_event")[j][3])
    /\ [][(InFanOut /\ ~InFanOut') =>
              /\ Len(calls["main"]) <= Len(seen["main"])
              /\ calls["main"] = SubSeq(seen["main"], 1, Len(calls["main"]))
              /\ \A i \in DOMAIN seen["main"] :
                     Upgrade(seen["main"][i]) => i <= Len(calls["main"])]_vars

\* What the main driver's log shows of the render step of the current iteration.
RenderLog == SelectSeq(mlog, LAMBDA r : Phase(r[1]) = 3)

\* The render step of the current iteration has left its loop over the entities.
Rendered ==
    \/ pc["main"] = "present"
    \/ RenderLog # <<>> /\ RenderLog[Len(RenderLog)][1] = "present"

\* C24: render step order. The render step of an iteration is the camera viewport
\* update, then the frame clear, then render calls, then at most one present, which
\* is the last record of the step; and once the loop over the entities is left there
\* has been one render call per entry of the pruned render container, in container
\* order.
C24_RenderStepOrder ==
    /\ RenderLog # <<>> =>
           /\ Len(RenderLog) >= 2
           /\ RenderLog[1][1] = "viewport"
           /\ RenderLog[2][1] = "clear"
           /\ \A i \in 3..Len(RenderLog) :
                  \/ RenderLog[i][1] = "render"
                  \/ i = Len(RenderLog) /\ RenderLog[i][1] = "present"
    /\ Rendered => [i \in DOMAIN Records("render") |-> Records("render")[i][2]] = snap["main"]

\* C25: independent delta timers. A driver's reference instant changes only in that
\* driver's own step at the end of its update (main) or fixed-update (timer) pass,
\* which sets it to the current instant, once per pass; no step of the fixed driver
\* changes the main driver's reference instant and no step of the main loop changes
\* the fixed driver's. (StartOk, before the loop, initialises both.)
C25_IndependentInstants ==
    /\ [][\A t \in Driver :
             instant'[t] # instant[t] =>
                 \/ StartOk
                 \/ /\ EndPass(t)
                    /\ pass[t] = (IF t = "main" THEN "update" ELSE "fixed")
                    /\ instant'[t] = InstantNow]_vars
    /\ [][FixedStep => instant'["main"] = instant["main"]]_vars
    /\ [][(MainStep /\ ~StartOk) => instant'["fixed"] = instant["fixed"]]_vars
    /\ [][\A t \in Driver :
             (EndPass(t) /\ pass[t] \in {"update", "fixed"})
                 => instant'[t] = InstantNow /\ instant'[Other(t)] = instant[Other(t)]]_vars
    /\ [](\A t \in Driver : Elapsed(t) >= 0)

\* Both drivers have completed passes and their reference instants differ: the main
\* driver is in its second iteration with its instant from the end of the first update
\* pass, and the fixed driver has reset its own since.
C25_Witness ==
    /\ iter = 2 /\ ticks = 2
    /\ pc["fixed"] = "idle"
    /\ pc["main"] = "call" /\ pass["main"] = "update"
    /\ instant["main"] < instant["fixed"]
    /\ Elapsed("main") > Elapsed("fixed")

\* Driver t is inside a dispatch pass: it holds the lock of the container it iterates.
InPass(t) == pc[t] \in {"iter", "elock"} \cup Callback

C28_FixedUpdateInterval ==
    /\ [](DEFAULT_TIMESTEP = 20)
    /\ [](lim.timesteps = {} => timestep = DEFAULT_TIMESTEP)
    /\ [][\A t \in lim.timesteps :
             WithTimestep(t) => timestep' = t /\ heap' = heap /\ handle' = handle]_vars
    /\ [][StartOk => interval' = <<timestep>>]_vars
    /\ [](pc["main"] = "init" => interval = <<>>)
    /\ [](interval # <<>> => interval = <<timestep>>)

\* with_timestep(40) was called on a Game whose containers hold entities, and its
\* timer callback, scheduled every 40 ms, has run.
C28_Witness ==
    /\ lim.timesteps = {5, 40}
    /\ interval = <<40>>
    /\ \A c \in {"update", "fixed", "render"} : heap[AddrOf(c)] # <<>>
    /\ done["fixed"][1] = 1

\* Nothing was ever pushed into the container at address a: start was called with it
\* empty, user code holds no clone to push through and no spawner registers there.
NeverPushed(a) ==
    /\ Population(a) = <<>>
    /\ \A c \in lim.clones : AddrOf(c) # a
    /\ lim.spawns = {} \/ a \notin {AddrOf("render"), AddrOf("fixed")}

\* C29: new containers are empty. The four containers of a newly constructed Game are
\* empty, and stay so when it is started as it is; and a pass over a container into
\* which nothing was pushed finds it empty and calls nothing.
C29_NewIsEmpty ==
    /\ lim = NewGame =>
           /\ \A a \in DOMAIN heap : heap[a] = <<>>
           /\ \A t \in Driver : calls[t] = <<>> /\ \A e \in Entities : done[t][e] = 0
    /\ \A a \in DOMAIN heap :
           NeverPushed(a) =>
               /\ heap[a] = <<>>
               /\ \A t \in Driver :
                      (InPass(t) /\ PassAddr(t) = a) => (seen[t] = <<>> /\ calls[t] = <<>>)

\* A newly constructed Game was started: a key press was polled and fanned out to
\* nobody, the update and render passes and a timer callback have run over their
\* empty containers, and the frame is about to be presented.
C29_Witness ==
    /\ lim = NewGame
    /\ batch = <<"KeyDown">>
    /\ Records("fanout") # <<>>
    /\ pc["main"] = "present"
    /\ ticks = 1 /\ pc["fixed"] = "idle"
    /\ mlog = <<<<"fanout", NoEnt, 1>>, <<"viewport", NoEnt, 0>>, <<"clear", NoEnt, 0>>>>

\* Driver t waits for the mutex of an entity whose guard the other driver holds.
WaitsForEntity(t) == pc[t] = "elock" /\ elock[holds[t]] = Other(t)

\* Driver t waits for the mutex of a container whose guard the other driver holds:
\* inside a spawner's callback, at add_entities, or at the lock of its own pass.
WaitsForContainer(t) ==
    \/ pc[t] = "spawn_render" /\ lock[AddrOf("render")] = Other(t)
    \/ pc[t] = "spawn_fixed" /\ lock[AddrOf("fixed")] = Other(t)
    \/ pc[t] \in {"access", "lock"} /\ lock[PassAddr(t)] = Other(t)

\* C30: deadlock freedom under runtime registration. The two drivers never wait for
\* each other: in no reachable state does each of them wait for a mutex whose guard
\* the other one holds.
C30_NoDeadlock ==
    ~(\A t \in Driver : WaitsForEntity(t) \/ WaitsForContainer(t))
\* C31: same-pass drop. With one thread only (no timer callback, no user code beside
\* the drivers), so that an entity can only be destroyed by a callback of the pass
\* itself, every entry the main driver's iterator reaches is alive when it is
\* dispatched, and the pass does not fail.
C31_SamePassDrop ==
    (lim.ticks = 0 /\ lim.userOps = 0 /\ lim.panics = {}) =>
        /\ pc["main"] # "panicked"
        /\ (pc["main"] = "iter" /\ idx["main"] <= Len(heap[PassAddr("main")]))
               => Upgrade(Entry("main"))
\* C32: the sequence is frozen during a pass. A driver inside a dispatch pass (one
\* timer callback, one update pass, one render pass, the fan-out of one event) holds
\* the lock of the container it iterates from before the first callback until after
\* the last, no step taken meanwhile changes that container's sequence, and a push,
\* add_entities or clear of user code on that container happens only while no driver
\* is inside a pass over it.
C32_FrozenDuringPass ==
    /\ [](\A t \in Driver : InPass(t) => lock[PassAddr(t)] = t)
    /\ [][\A t \in Driver :
             (InPass(t) /\ InPass(t)') => heap'[PassAddr(t)] = heap[PassAddr(t)]]_vars
    /\ [][\A h \in DOMAIN handle :
             (\/ UserClear(h)
              \/ \E e \in Entities : UserPush(h, e)
              \/ \E other \in UserSlices : UserAdd(h, other))
                 => \A t \in Driver : InPass(t) => PassAddr(t) # handle[h]]_vars

\* The update pass has called its first entry and not yet its second; user code, which
\* holds clones of the update and the fixed-update container, cannot clear the former
\* now and can clear the latter.
C32_Witness ==
    /\ pc["main"] = "iter" /\ pass["main"] = "update"
    /\ Len(calls["main"]) = 1
    /\ idx["main"] = 2 /\ Len(heap[AddrOf("update")]) = 2
    /\ handle[5] = AddrOf("update") /\ handle[6] = AddrOf("fixed")
    /\ userOps < lim.userOps
    /\ ~ENABLED UserClear(5)
    /\ ENABLED UserClear(6)
\* C33: an entity is never destroyed while one of its callbacks is executing. From
\* its upgrade until the callback has returned the dispatching driver holds a strong
\* reference, so the entity is alive however many owners drop theirs meanwhile; and
\* the step that destroys an entity leaves no driver inside a callback on it and no
\* driver holding its guard.
C33_AliveDuringCallback ==
    /\ [](\A t \in Driver :
             pc[t] \in {"elock"} \cup Callback =>
                 /\ holds[t] # NoEnt
                 /\ StrongCount(holds[t]) >= 1
                 /\ Upgrade(holds[t]))
    /\ [][\A e \in created :
             (StrongCount(e) >= 1 /\ StrongCount(e)' = 0) =>
                 \A t \in Driver :
                     /\ elock'[e] # t
                     /\ ~(pc'[t] \in Callback /\ holds'[t] = e)]_vars

\* A driver is inside a callback on an entity, not the first of its pass, whose every
\* owner has dropped its strong reference: the driver's is the only one left.
C33_Witness ==
    \E t \in Driver :
        /\ pc[t] = "call"
        /\ Len(calls[t]) = 2
        /\ owned[holds[t]] = 0
        /\ StrongCount(holds[t]) = 1
        /\ elock[holds[t]] = t
\* The main driver has finished the update pass of the current loop iteration.
UpdateDone ==
    /\ iter >= 1
    /\ \/ pc["main"] \in {"render", "present", "loop", "done"}
       \/ pass["main"] = "render"

\* The render step of the current iteration has finished its loop over the entities.
RenderDone == pc["main"] = "present" \/ (pc["main"] = "loop" /\ iter >= 1 /\ camera)

\* C34: bounded staleness of dead entries. An entity that was already destroyed when a
\* loop iteration began has no entry in the interactive container once process_event
\* dispatches and none in the update container once the update pass dispatches, and
\* none in either when the iteration's update pass is over; one already destroyed
\* when a render step began has none in the render container while that step
\* dispatches and afterwards; one already destroyed when the timer fired has none in
\* the fixed-update container during and after that timer callback. Every pass
\* prunes before it dispatches.
C34_BoundedStaleness ==
    /\ (InPass("main") /\ pass["main"] \in {"event", "update"}) =>
           deadAt.loop \cap Range(heap[PassAddr("main")]) = {}
    /\ UpdateDone =>
           deadAt.loop \cap (Range(heap[AddrOf("update")])
                                \cup Range(heap[AddrOf("interactive")])) = {}
    /\ ((InPass("main") /\ pass["main"] = "render") \/ RenderDone) =>
           deadAt.render \cap Range(heap[AddrOf("render")]) = {}
    /\ (InPass("fixed") \/ (pc["fixed"] = "idle" /\ ticks >= 1)) =>
           deadAt.tick \cap Range(heap[AddrOf("fixed")]) = {}

\* User code destroyed A, registered for update and fixed update, before the loop
\* iteration and the timer callback began: both have run to their end, B was called
\* in both and A's entries are gone from both containers.
C34_Witness ==
    /\ Population(AddrOf("update")) = <<1, 2>>
    /\ Population(AddrOf("fixed")) = <<2, 1>>
    /\ deadAt.loop = {1} /\ deadAt.tick = {1}
    /\ pc["main"] = "loop" /\ iter = 1
    /\ pc["fixed"] = "idle" /\ ticks = 1
    /\ heap[AddrOf("update")] = <<2>> /\ heap[AddrOf("fixed")] = <<2>>
    /\ done["main"][2] = 1 /\ done["fixed"][2] = 1
\* Sequence s is sequence r with entries appended, none removed or moved.
Extends(s, r) == Len(s) >= Len(r) /\ SubSeq(s, 1, Len(r)) = r

\* C35: lazy removal. The step that drops the last strong reference to an entity, in
\* user code or at the end of a callback, changes no container's sequence; and a step
\* that removes an entry from a container (anything but appending to it) is a prune
\* of that container, by the main driver's access() or by the timer callback, or a
\* clear of it: until then a dead entry stays where it is.
C35_LazyRemoval ==
    /\ [][\A e \in Entities :
             (StrongCount(e) >= 1 /\ StrongCount(e)' = 0) => heap' = heap]_vars
    /\ [][\A e \in Entities : UserDrop(e) => heap' = heap]_vars
    /\ [][\A a \in DOMAIN heap :
             ~Extends(heap'[a], heap[a]) =>
                 \/ pc["main"] = "access" /\ PassAddr("main") = a /\ pc'["main"] # "access"
                 \/ a = AddrOf("fixed") /\ ticks' = ticks + 1
                 \/ \E h \in DOMAIN handle : handle[h] = a /\ UserClear(h)]_vars

\* A was called by both drivers and then destroyed by its owner; the loop iteration
\* and the timer callback are over and both containers still hold A's entry.
C35_Witness ==
    /\ userOps = 1
    /\ StrongCount(1) = 0
    /\ done["main"][1] = 1 /\ done["fixed"][1] = 1
    /\ pc["main"] = "loop" /\ iter = 1
    /\ pc["fixed"] = "idle" /\ ticks = 1
    /\ heap[AddrOf("update")] = <<1, 2>> /\ heap[AddrOf("fixed")] = <<2, 1>>
\* C36: fixed ticks never overlap. A timer callback begins only while no fixed-update
\* pass is in progress: the timer thread is idle, holds no entity and no guard, the
\* fixed-update container's lock is free, and the callback before it, if any, has
\* called every entry of its pass; and while a pass is in progress the timer thread
\* holds the container's lock.
C36_TicksNeverOverlap ==
    /\ [](InPass("fixed") => lock[AddrOf("fixed")] = "fixed")
    /\ [](~InPass("fixed") => lock[AddrOf("fixed")] # "fixed")
    /\ [][ticks' # ticks =>
              /\ ticks' = ticks + 1
              /\ pc["fixed"] = "idle"
              /\ lock[AddrOf("fixed")] = "free"
              /\ holds["fixed"] = NoEnt
              /\ \A e \in Entities : elock[e] # "fixed"
              /\ ticks >= 1 => calls["fixed"] = seen["fixed"]]_vars

\* The second timer callback is inside its first fixed_update call; the first one
\* called both entries of the fixed-update container.
C36_Witness ==
    /\ ticks = 2
    /\ pc["fixed"] = "call"
    /\ Len(calls["fixed"]) = 1
    /\ Len(heap[AddrOf("fixed")]) = 2
    /\ \A e \in Range(heap[AddrOf("fixed")]) : done["fixed"][e] >= 1
\* C37: the quit flag is monotone. A renderer from Renderer::new has the flag unset
\* until the loop begins; once set the flag stays set; the only step that sets it is
\* the poll of a quit event; and a start call made with a renderer whose flag is
\* already set begins one loop iteration only, executes no render step, and returns
\* after that iteration's event poll and its update pass over every entry of the
\* update container.
C37_QuitMonotone ==
    /\ []((~lim.quit /\ iter = 0) => ~quit)
    /\ [][quit => quit']_vars
    /\ [][(~quit /\ quit') =>
              /\ pc["main"] = "poll"
              /\ pump # <<>> /\ Head(pump) = "Quit"
              /\ pump' = Tail(pump)]_vars
    /\ [](lim.quit =>
              /\ quit
              /\ iter <= 1
              /\ pc["main"] \notin {"render", "present"} /\ pass["main"] # "render"
              /\ RenderLog = <<>>)
    /\ []((lim.quit /\ pc["main"] = "done") =>
              /\ iter = 1
              /\ Polled
              /\ calls["main"] = heap[AddrOf("update")]
              /\ [i \in DOMAIN Records("update") |-> Records("update")[i][2]]
                     = heap[AddrOf("update")])

\* start was called with a renderer whose flag was set: the one iteration polled a
\* key press and no quit event, dispatched it, updated A and B, and start has returned
\* with a camera attached and nothing rendered.
C37_Witness ==
    /\ lim.quit
    /\ pc["main"] = "done"
    /\ camera
    /\ batch = <<"KeyDown">>
    /\ Records("on_event") # <<>>
    /\ Records("quit") = <<>>
    /\ calls["main"] = <<1, 2>>
    /\ RenderLog = <<>>

====
